---- MODULE Spec2Model ----
(***************************************************************************)
(* The shared room document of quizmas and the operations on it.           *)
(*                                                                         *)
(* src/common.js is the current module.  src/questions.js keeps earlier    *)
(* revisions of the same module; from the revision at lines 88-325 the     *)
(* model takes the operations whose store behaviour differs from           *)
(* common.js: ensureRoom (creates a document without hum and without the   *)
(* used pools) and buzz / registerTeam / changeScore (which do run their   *)
(* callback in a Firestore transaction).  They carry the suffix Q.         *)
(*                                                                         *)
(* The store is one Firestore document: getDoc, setDoc and updateDoc are   *)
(* atomic one by one, an await between two of them is a point where other  *)
(* clients run, and runTransaction is optimistic: the callback reads a     *)
(* snapshot and the commit applies only if the document was not written    *)
(* since, else the callback runs again.                                    *)
(***************************************************************************)
EXTENDS Integers, Sequences, FiniteSets, TLC

\* ------------------------------------------------------------------ bounds
NumClients == 2
MaxCalls == 3

Clients == 1..NumClients

\* ------------------------------------------------------------------ inputs
TeamNames == {"Red", "Blue"}
Deltas == {-1, 2}
Persons == {"Einstein", "Curie"}
Songs == {"Jingle Bells", "Silent Night"}
SecondsIn == {60}
Lives == {"q0", "q1"}
Reveals == BOOLEAN
\* question bank payloads (objects: truthy)
Banks == {"bankA", "bankB"}
\* values of Date.now(): each client reads its own clock
Times == {1, 2}

\* null of a JavaScript string-or-null field, and of a timestamp-or-null field
Null == "null"
NullT == -1

\* Number(live?.index ?? 0) of the live question objects in Lives
LiveIndex(live) == IF live = "q1" THEN 1 ELSE 0

\* JavaScript truthiness of a string-or-null value (if (data?.buzz?.lockedBy))
Truthy(v) == v # Null /\ v # ""

\* ---------------------------------------------------------- document shape
TopFields ==
  {"createdAt", "buzz", "teams", "scores", "game", "live", "reveal", "charades", "hum"}

CharadesFields == {"actorTeam", "person", "endsAt", "running", "revealed", "used"}
HumFields == {"hummerTeam", "song", "endsAt", "running", "revealed", "used"}

ActiveCharades == CharadesFields \ {"used"}
ActiveHum == HumFields \ {"used"}

\* has: the keys the map holds; a key outside has reads as undefined and its
\* slot below keeps the cleared value.
DefaultBuzz == [lockedBy |-> Null, lockedAt |-> NullT]
DefaultGame == [round |-> Null, index |-> 0, reveal |-> FALSE]
DefaultCharades ==
  [actorTeam |-> Null, person |-> Null, endsAt |-> NullT, running |-> FALSE,
   revealed |-> FALSE, used |-> <<>>, has |-> CharadesFields]
DefaultHum ==
  [hummerTeam |-> Null, song |-> Null, endsAt |-> NullT, running |-> FALSE,
   revealed |-> FALSE, used |-> <<>>, has |-> HumFields]

\* the object literal { actorTeam: null, ..., revealed: false } with no used key
ClearedCharades == [DefaultCharades EXCEPT !.has = ActiveCharades]
ClearedHum == [DefaultHum EXCEPT !.has = ActiveHum]

\* a map that is not in the document at all
NoCharades == [DefaultCharades EXCEPT !.has = {}]
NoHum == [DefaultHum EXCEPT !.has = {}]

EmptyScores == [t \in {} |-> 0]

\* the document ensureRoom writes with setDoc (it has no questionBank key:
\* the slot of a key outside present keeps Null)
NewRoom ==
  [present |-> TopFields,
   buzz |-> DefaultBuzz,
   teams |-> <<>>,
   scores |-> EmptyScores,
   game |-> DefaultGame,
   live |-> Null,
   reveal |-> FALSE,
   charades |-> DefaultCharades,
   hum |-> DefaultHum,
   questionBank |-> Null]

\* the document the questions.js revision of ensureRoom writes with setDoc
NewRoomQ ==
  [NewRoom EXCEPT !.present = TopFields \ {"hum"},
                  !.charades = ClearedCharades,
                  !.hum = NoHum]

\* no document: the slots keep a fixed value while exists is FALSE
NoRoom == [NewRoom EXCEPT !.present = {}, !.charades = NoCharades, !.hum = NoHum]

\* ------------------------------------------------------------------- state
VARIABLES
  exists,   \* snap.exists() of the room document
  data,     \* snap.data() of the room document
  ver,      \* the document's update time: every write advances it
  pc,       \* per client: where its running call is suspended
  cur,      \* per client: the running call, with what it has read
  ev,       \* the call that returned last: what it was and how it ended
  last,     \* per client: its last returned call, kept for the race-safe three
  calls     \* calls started so far

vars == <<exists, data, ver, pc, cur, ev, last, calls>>

NoCall == [op |-> "none", team |-> Null, delta |-> 0,
           seen |-> NoRoom, seenVer |-> 0, at |-> 0, patch |-> {},
           bank |-> Null]
NoEvent == [op |-> "none", team |-> Null, delta |-> 0,
            arg |-> Null, seconds |-> 0, now |-> 0,
            saw |-> FALSE, result |-> "none"]
NoResult == [op |-> "none", team |-> Null]

\* buzz, registerTeam and changeScore, in either revision
OpName(op) ==
  IF op \in {"buzz", "buzzQ"} THEN "buzz"
  ELSE IF op \in {"registerTeam", "registerTeamQ"} THEN "registerTeam"
  ELSE IF op \in {"changeScore", "changeScoreQ"} THEN "changeScore"
  ELSE "none"

Init ==
  /\ exists = FALSE
  /\ data = NoRoom
  /\ ver = 0
  /\ pc = [c \in Clients |-> "idle"]
  /\ cur = [c \in Clients |-> NoCall]
  /\ ev = NoEvent
  /\ last = [c \in Clients |-> NoResult]
  /\ calls = 0

\* a client may start a call
CanCall(c) == pc[c] = "idle" /\ calls < MaxCalls

\* the call of client c returns (result "ok") or throws (any other result);
\* e describes the call: its arguments, and saw: the room document existed
\* when the call looked, or would have looked
Returned(c, e) ==
  /\ pc' = [pc EXCEPT ![c] = "idle"]
  /\ cur' = [cur EXCEPT ![c] = NoCall]
  /\ ev' = e
  /\ last' = [last EXCEPT ![c] =
       IF OpName(e.op) # "none" /\ e.saw /\ e.result = "ok"
         THEN [op |-> OpName(e.op), team |-> e.team]
         ELSE NoResult]

Returns(c, op, team, delta, saw, result) ==
  Returned(c, [NoEvent EXCEPT !.op = op, !.team = team, !.delta = delta,
                              !.saw = saw, !.result = result])

\* the store commits a write of the whole document value d
Write(d) ==
  /\ exists' = TRUE
  /\ data' = d
  /\ ver' = ver + 1

NoWrite == UNCHANGED <<exists, data, ver>>


\* ------------------------------------------------- common.js: ensureRoom
\* the fields ensureRoom finds missing in the snapshot d (common.js 76-88)
Patch(d) ==
  {f \in {"teams", "scores", "game", "live", "reveal", "charades", "hum"} :
     f \notin d.present}

\* updateDoc(ref, patch): each field of the patch is set to its default
ApplyPatch(d, patch) ==
  [d EXCEPT !.present = @ \cup patch,
            !.teams = IF "teams" \in patch THEN <<>> ELSE @,
            !.scores = IF "scores" \in patch THEN EmptyScores ELSE @,
            !.game = IF "game" \in patch THEN DefaultGame ELSE @,
            !.live = IF "live" \in patch THEN Null ELSE @,
            !.reveal = IF "reveal" \in patch THEN FALSE ELSE @,
            !.charades = IF "charades" \in patch THEN DefaultCharades ELSE @,
            !.hum = IF "hum" \in patch THEN DefaultHum ELSE @]

\* const snap = await getDoc(ref), and the branch taken on it
ensureRoom(c) ==
  /\ CanCall(c)
  /\ calls' = calls + 1
  /\ IF ~exists
       THEN /\ pc' = [pc EXCEPT ![c] = "ensureRoom_setDoc"]
            /\ cur' = [cur EXCEPT ![c] =
                 [NoCall EXCEPT !.op = "ensureRoom"]]
            /\ UNCHANGED <<ev, last>>
       ELSE IF Patch(data) = {}
         THEN Returns(c, "ensureRoom", Null, 0, TRUE, "ok")
         ELSE /\ pc' = [pc EXCEPT ![c] = "ensureRoom_updateDoc"]
              /\ cur' = [cur EXCEPT ![c] =
                   [NoCall EXCEPT !.op = "ensureRoom",
                                  !.patch = Patch(data)]]
              /\ UNCHANGED <<ev, last>>
  /\ NoWrite

\* await setDoc(ref, {...}): the whole document is replaced
ensureRoom_setDoc(c) ==
  /\ pc[c] = "ensureRoom_setDoc"
  /\ cur[c].op = "ensureRoom"
  /\ Write(NewRoom)
  /\ Returns(c, "ensureRoom", Null, 0, FALSE, "ok")
  /\ UNCHANGED calls

\* await updateDoc(ref, patch)
ensureRoom_updateDoc(c) ==
  /\ pc[c] = "ensureRoom_updateDoc"
  /\ cur[c].op = "ensureRoom"
  /\ Write(ApplyPatch(data, cur[c].patch))
  /\ Returns(c, "ensureRoom", Null, 0, TRUE, "ok")
  /\ UNCHANGED calls

\* ------------------------------------------- common.js: plain updateDoc ops
\* await updateDoc(roomRef(roomId), {...}) as the whole body of an operation:
\* the store rejects the update of a document that does not exist
\* e names the operation and its arguments
HostUpdateOf(c, e, d) ==
  /\ CanCall(c)
  /\ calls' = calls + 1
  /\ IF exists
       THEN /\ Write(d)
            /\ Returned(c, [e EXCEPT !.saw = TRUE, !.result = "ok"])
       ELSE /\ NoWrite
            /\ Returned(c, [e EXCEPT !.saw = FALSE, !.result = "not-found"])

HostUpdate(c, op, team, d) ==
  HostUpdateOf(c, [NoEvent EXCEPT !.op = op, !.team = team], d)

\* the arguments of startCharades / startHum, with what Date.now() returned
StartEvent(op, team, arg, seconds, now) ==
  [NoEvent EXCEPT !.op = op, !.team = team, !.arg = arg,
                  !.seconds = seconds, !.now = now]

\* a plain assignment of [x] in place of arrayUnion(x)
ArrayUnion_Overwrite(arr, x) == <<x>>

\* arrayUnion(x) applied to an array field
ArrayUnion(arr, x) ==
  IF \E i \in DOMAIN arr : arr[i] = x THEN arr ELSE Append(arr, x)

resetBuzz(c) ==
  HostUpdate(c, "resetBuzz", Null,
    [data EXCEPT !.present = @ \cup {"buzz"}, !.buzz = DefaultBuzz])

setLiveQuestion(c, live) ==
  HostUpdateOf(c, [NoEvent EXCEPT !.op = "setLiveQuestion", !.arg = live],
    [data EXCEPT
       !.present = @ \cup {"live", "reveal", "game", "charades", "hum", "buzz"},
       !.live = live,
       !.reveal = FALSE,
       !.game = [round |-> "questions", index |-> LiveIndex(live), reveal |-> FALSE],
       !.charades = ClearedCharades,
       !.hum = ClearedHum,
       !.buzz = DefaultBuzz])

setReveal(c, reveal) ==
  HostUpdate(c, "setReveal", Null,
    [data EXCEPT !.present = @ \cup {"reveal"}, !.reveal = reveal])

\* startCharades without the five "hum.*" lines: hum keeps running
startCharades_KeepsHum(c, actorTeam, person, seconds, now) ==
  HostUpdateOf(c, StartEvent("startCharades", actorTeam, person, seconds, now),
    [data EXCEPT
       !.present = @ \cup {"game", "live", "reveal", "charades", "buzz"},
       !.game = [round |-> "charades", index |-> 0, reveal |-> FALSE],
       !.live = Null,
       !.reveal = FALSE,
       !.charades = [actorTeam |-> actorTeam, person |-> person,
                     endsAt |-> now + seconds * 1000, running |-> TRUE,
                     revealed |-> FALSE, used |-> ArrayUnion(@.used, person),
                     has |-> CharadesFields],
       !.buzz = DefaultBuzz])

startCharades(c, actorTeam, person, seconds, now) ==
  HostUpdateOf(c, StartEvent("startCharades", actorTeam, person, seconds, now),
    [data EXCEPT
       !.present = @ \cup {"game", "live", "reveal", "charades", "hum", "buzz"},
       !.game = [round |-> "charades", index |-> 0, reveal |-> FALSE],
       !.live = Null,
       !.reveal = FALSE,
       !.charades = [actorTeam |-> actorTeam, person |-> person,
                     endsAt |-> now + seconds * 1000, running |-> TRUE,
                     revealed |-> FALSE, used |-> ArrayUnion(@.used, person),
                     has |-> CharadesFields],
       !.hum = [@ EXCEPT !.hummerTeam = Null, !.song = Null, !.endsAt = NullT,
                         !.running = FALSE, !.revealed = FALSE,
                         !.has = @ \cup ActiveHum],
       !.buzz = DefaultBuzz])

stopCharades(c) ==
  HostUpdate(c, "stopCharades", Null,
    [data EXCEPT
       !.present = @ \cup {"charades"},
       !.charades = [@ EXCEPT !.running = FALSE, !.endsAt = NullT,
                              !.has = @ \cup {"running", "endsAt"}]])

\* revealCharades that sets revealed only: the round keeps running
revealCharades_KeepsRunning(c) ==
  HostUpdate(c, "revealCharades", Null,
    [data EXCEPT
       !.present = @ \cup {"charades"},
       !.charades = [@ EXCEPT !.revealed = TRUE, !.has = @ \cup {"revealed"}]])

revealCharades(c) ==
  HostUpdate(c, "revealCharades", Null,
    [data EXCEPT
       !.present = @ \cup {"charades"},
       !.charades = [@ EXCEPT !.revealed = TRUE, !.running = FALSE, !.endsAt = NullT,
                              !.has = @ \cup {"revealed", "running", "endsAt"}]])

startHum(c, hummerTeam, song, seconds, now) ==
  HostUpdateOf(c, StartEvent("startHum", hummerTeam, song, seconds, now),
    [data EXCEPT
       !.present = @ \cup {"game", "live", "reveal", "charades", "hum", "buzz"},
       !.game = [round |-> "hum", index |-> 0, reveal |-> FALSE],
       !.live = Null,
       !.reveal = FALSE,
       !.charades = ClearedCharades,
       !.hum = [hummerTeam |-> hummerTeam, song |-> song,
                endsAt |-> now + seconds * 1000, running |-> TRUE,
                revealed |-> FALSE, used |-> <<>>, has |-> ActiveHum],
       !.buzz = DefaultBuzz])

stopHum(c) ==
  HostUpdate(c, "stopHum", Null,
    [data EXCEPT
       !.present = @ \cup {"hum"},
       !.hum = [@ EXCEPT !.running = FALSE, !.endsAt = NullT,
                         !.has = @ \cup {"running", "endsAt"}]])

revealHum(c) ==
  HostUpdate(c, "revealHum", Null,
    [data EXCEPT
       !.present = @ \cup {"hum"},
       !.hum = [@ EXCEPT !.revealed = TRUE, !.running = FALSE, !.endsAt = NullT,
                         !.has = @ \cup {"revealed", "running", "endsAt"}]])

\* clearStage that clears the modes with whole object literals, as
\* setLiveQuestion does: the used pools go with them
clearStage_WholeMaps(c) ==
  HostUpdate(c, "clearStage", Null,
    [data EXCEPT
       !.present = @ \cup {"live", "reveal", "game", "charades", "hum", "buzz"},
       !.live = Null,
       !.reveal = FALSE,
       !.game = DefaultGame,
       !.charades = ClearedCharades,
       !.hum = ClearedHum,
       !.buzz = DefaultBuzz])

clearStage(c) ==
  HostUpdate(c, "clearStage", Null,
    [data EXCEPT
       !.present = @ \cup {"live", "reveal", "game", "charades", "hum", "buzz"},
       !.live = Null,
       !.reveal = FALSE,
       !.game = DefaultGame,
       !.charades = [@ EXCEPT !.actorTeam = Null, !.person = Null, !.endsAt = NullT,
                              !.running = FALSE, !.revealed = FALSE,
                              !.has = @ \cup ActiveCharades],
       !.hum = [@ EXCEPT !.hummerTeam = Null, !.song = Null, !.endsAt = NullT,
                         !.running = FALSE, !.revealed = FALSE,
                         !.has = @ \cup ActiveHum],
       !.buzz = DefaultBuzz])

\* resetCharadesPool written as { charades: { used: [] } }: the map is replaced
resetCharadesPool_WholeMap(c) ==
  HostUpdate(c, "resetCharadesPool", Null,
    [data EXCEPT
       !.present = @ \cup {"charades"},
       !.charades = [NoCharades EXCEPT !.has = {"used"}]])

resetCharadesPool(c) ==
  HostUpdate(c, "resetCharadesPool", Null,
    [data EXCEPT
       !.present = @ \cup {"charades"},
       !.charades = [@ EXCEPT !.used = <<>>, !.has = @ \cup {"used"}]])

resetHumPool(c) ==
  HostUpdate(c, "resetHumPool", Null,
    [data EXCEPT
       !.present = @ \cup {"hum"},
       !.hum = [@ EXCEPT !.used = <<>>, !.has = @ \cup {"used"}]])

\* ------------------------- common.js: buzz, registerTeam, changeScore
\* "await runTransaction, arrayUnion(db, async (tx) => {...})" is a comma
\* expression: it awaits the function value runTransaction, then builds an
\* arrayUnion sentinel from db and the callback.  The callback never runs and
\* the store is neither read nor written; the call returns normally.
CommaArrayUnion(c, op, team, delta) ==
  /\ CanCall(c)
  /\ calls' = calls + 1
  /\ NoWrite
  /\ Returns(c, op, team, delta, exists, "ok")

buzz(c, teamName) == CommaArrayUnion(c, "buzz", teamName, 0)

registerTeam(c, teamName) == CommaArrayUnion(c, "registerTeam", teamName, 0)

changeScore(c, teamName, delta) == CommaArrayUnion(c, "changeScore", teamName, delta)


\* ------------------------------------ questions.js (88-325): ensureRoom
PatchQ(d) ==
  {f \in {"teams", "scores", "game", "live", "reveal", "charades"} :
     f \notin d.present}

\* const snap = await getDoc(ref), and the branch taken on it.  A document
\* that exists was written by one of the two setDoc calls, both of which set
\* every field this revision patches, so its patch is empty.
ensureRoomQ(c) ==
  /\ CanCall(c)
  /\ calls' = calls + 1
  /\ IF ~exists
       THEN /\ pc' = [pc EXCEPT ![c] = "ensureRoom_setDoc"]
            /\ cur' = [cur EXCEPT ![c] =
                 [NoCall EXCEPT !.op = "ensureRoomQ"]]
            /\ UNCHANGED <<ev, last>>
       ELSE /\ PatchQ(data) = {}
            /\ Returns(c, "ensureRoomQ", Null, 0, TRUE, "ok")
  /\ NoWrite

ensureRoomQ_setDoc(c) ==
  /\ pc[c] = "ensureRoom_setDoc"
  /\ cur[c].op = "ensureRoomQ"
  /\ Write(NewRoomQ)
  /\ Returns(c, "ensureRoomQ", Null, 0, FALSE, "ok")
  /\ UNCHANGED calls

\* ----------------- questions.js (88-325): buzz, registerTeam, changeScore
\* runTransaction(db, callback) is entered; the callback has not read yet
TxBegin(c, op, team, delta) ==
  /\ CanCall(c)
  /\ calls' = calls + 1
  /\ pc' = [pc EXCEPT ![c] = "tx_get"]
  /\ cur' = [cur EXCEPT ![c] =
       [NoCall EXCEPT !.op = op, !.team = team, !.delta = delta]]
  /\ NoWrite
  /\ UNCHANGED <<ev, last>>

buzzQ(c, teamName) == TxBegin(c, "buzzQ", teamName, 0)

registerTeamQ(c, teamName) == TxBegin(c, "registerTeamQ", teamName, 0)

changeScoreQ(c, teamName, delta) == TxBegin(c, "changeScoreQ", teamName, delta)

\* buzz without the "already locked" return
buzzWrites_Always(seen) == TRUE

\* the callback of buzz on snapshot seen: does it call tx.update?
buzzWrites(seen) == ~Truthy(seen.buzz.lockedBy)

\* does the callback of call k evaluate Date.now() on snapshot seen?
ReadsClock(k, seen) == k.op = "buzzQ" /\ buzzWrites(seen)

\* const snap = await tx.get(ref); if (!snap.exists()) throw new Error("Room missing")
\* An error thrown by the callback rejects runTransaction; it is not retried.
\* now is what Date.now() returns if the callback gets to evaluate it.
TxGet(c, now) ==
  /\ pc[c] = "tx_get"
  /\ IF exists
       THEN /\ pc' = [pc EXCEPT ![c] = "tx_commit"]
            /\ cur' = [cur EXCEPT ![c].seen = data, ![c].seenVer = ver,
                                  ![c].at = IF ReadsClock(cur[c], data) THEN now ELSE 0]
            /\ UNCHANGED <<ev, last>>
       ELSE Returns(c, cur[c].op, cur[c].team, cur[c].delta,
                    FALSE, "Room missing")
  /\ NoWrite
  /\ UNCHANGED calls

\* buzz that writes "buzz.lockedBy" only: the lock time stays as it was
buzzUpdate_NoTime(d, teamName, at) ==
  [d EXCEPT !.present = @ \cup {"buzz"},
            !.buzz = [@ EXCEPT !.lockedBy = teamName]]

\* tx.update(ref, {"buzz.lockedBy": teamName, "buzz.lockedAt": Date.now()})
buzzUpdate(d, teamName, at) ==
  [d EXCEPT !.present = @ \cup {"buzz"},
            !.buzz = [lockedBy |-> teamName, lockedAt |-> at]]

\* the teams array the callback of registerTeam builds from snapshot seen
registerTeamTeams(seen, teamName) == ArrayUnion(seen.teams, teamName)

\* registerTeam without the line that initialises the score
registerTeamScores_NoDefault(seen, teamName) == seen.scores

\* the scores map the callback of registerTeam builds from snapshot seen
registerTeamScores(seen, teamName) ==
  IF teamName \in DOMAIN seen.scores
    THEN seen.scores
    ELSE [t \in DOMAIN seen.scores \cup {teamName} |->
            IF t = teamName THEN 0 ELSE seen.scores[t]]

\* tx.update(ref, { teams, scores })
registerTeamUpdate(d, seen, teamName) ==
  [d EXCEPT !.present = @ \cup {"teams", "scores"},
            !.teams = registerTeamTeams(seen, teamName),
            !.scores = registerTeamScores(seen, teamName)]

\* the scores map the callback of changeScore builds from snapshot seen
changeScoreScores(seen, teamName, delta) ==
  [t \in DOMAIN seen.scores \cup {teamName} |->
     IF t = teamName
       THEN (IF teamName \in DOMAIN seen.scores THEN seen.scores[teamName] ELSE 0)
            + delta
       ELSE seen.scores[t]]

\* tx.update(ref, { scores })
changeScoreUpdate(d, seen, teamName, delta) ==
  [d EXCEPT !.present = @ \cup {"scores"},
            !.scores = changeScoreScores(seen, teamName, delta)]

\* what the transaction of call k writes onto document d, if it commits
TxResult(d, k) ==
  IF k.op = "buzzQ"
    THEN (IF buzzWrites(k.seen) THEN buzzUpdate(d, k.team, k.at) ELSE d)
    ELSE IF k.op = "registerTeamQ"
      THEN registerTeamUpdate(d, k.seen, k.team)
      ELSE changeScoreUpdate(d, k.seen, k.team, k.delta)

\* does the transaction of call k write at all?
TxWrites(k) == k.op = "buzzQ" => buzzWrites(k.seen)

\* the commit's precondition: the document read was not written since
TxFresh(k) == k.seenVer = ver

\* the commit: the writes apply and the call returns
TxCommit(c) ==
  /\ pc[c] = "tx_commit"
  /\ TxFresh(cur[c])
  /\ IF TxWrites(cur[c]) THEN Write(TxResult(data, cur[c])) ELSE NoWrite
  /\ Returns(c, cur[c].op, cur[c].team, cur[c].delta, TRUE, "ok")
  /\ UNCHANGED calls

\* the commit fails its precondition: the callback runs again
TxRetry(c) ==
  /\ pc[c] = "tx_commit"
  /\ ~TxFresh(cur[c])
  /\ pc' = [pc EXCEPT ![c] = "tx_get"]
  /\ cur' = [cur EXCEPT ![c].seen = NoRoom, ![c].seenVer = 0, ![c].at = 0]
  /\ NoWrite
  /\ UNCHANGED <<ev, last, calls>>

\* ------------------------------- questions.js (88-325): the question bank
\* const snap = await getDoc(ref); throw "Room missing" without a document,
\* return if the snapshot holds a questionBank
ensureQuestionBank(c, bank) ==
  /\ CanCall(c)
  /\ calls' = calls + 1
  /\ IF ~exists
       THEN Returned(c, [NoEvent EXCEPT !.op = "ensureQuestionBank", !.arg = bank,
                                        !.saw = FALSE, !.result = "Room missing"])
       ELSE IF Truthy(data.questionBank)
         THEN Returned(c, [NoEvent EXCEPT !.op = "ensureQuestionBank", !.arg = bank,
                                          !.saw = TRUE, !.result = "ok"])
         ELSE /\ pc' = [pc EXCEPT ![c] = "ensureQuestionBank_updateDoc"]
              /\ cur' = [cur EXCEPT ![c] =
                   [NoCall EXCEPT !.op = "ensureQuestionBank", !.bank = bank]]
              /\ UNCHANGED <<ev, last>>
  /\ NoWrite

\* updateDoc(ref, { questionBank: bank }) on document d
questionBankUpdate(d, bank) ==
  [d EXCEPT !.present = @ \cup {"questionBank"}, !.questionBank = bank]

\* await updateDoc(ref, { questionBank: bank }); no operation deletes the
\* document, so the one getDoc found is still there
ensureQuestionBank_updateDoc(c) ==
  /\ pc[c] = "ensureQuestionBank_updateDoc"
  /\ Write(questionBankUpdate(data, cur[c].bank))
  /\ Returned(c, [NoEvent EXCEPT !.op = "ensureQuestionBank", !.arg = cur[c].bank,
                                  !.saw = TRUE, !.result = "ok"])
  /\ UNCHANGED calls

saveQuestionBank(c, bank) ==
  HostUpdateOf(c, [NoEvent EXCEPT !.op = "saveQuestionBank", !.arg = bank],
    questionBankUpdate(data, bank))

\* ------------------------------------------------------------ specification
Next ==
  \/ \E c \in Clients :
       \/ ensureRoom(c)
       \/ ensureRoom_setDoc(c)
       \/ ensureRoom_updateDoc(c)
       \/ resetBuzz(c)
       \/ \E t \in TeamNames : buzz(c, t)
       \/ \E t \in TeamNames : registerTeam(c, t)
       \/ \E t \in TeamNames, d \in Deltas : changeScore(c, t, d)
       \/ \E l \in Lives : setLiveQuestion(c, l)
       \/ \E r \in Reveals : setReveal(c, r)
       \/ \E t \in TeamNames, p \in Persons, s \in SecondsIn, n \in Times :
            startCharades(c, t, p, s, n)
       \/ stopCharades(c)
       \/ revealCharades(c)
       \/ \E t \in TeamNames, p \in Songs, s \in SecondsIn, n \in Times :
            startHum(c, t, p, s, n)
       \/ stopHum(c)
       \/ revealHum(c)
       \/ clearStage(c)
       \/ resetCharadesPool(c)
       \/ resetHumPool(c)
       \/ ensureRoomQ(c)
       \/ ensureRoomQ_setDoc(c)
       \/ \E t \in TeamNames : buzzQ(c, t)
       \/ \E t \in TeamNames : registerTeamQ(c, t)
       \/ \E t \in TeamNames, d \in Deltas : changeScoreQ(c, t, d)
       \/ \E n \in Times : TxGet(c, n)
       \/ TxCommit(c)
       \/ TxRetry(c)
       \/ \E b \in Banks : ensureQuestionBank(c, b)
       \/ ensureQuestionBank_updateDoc(c)
       \/ \E b \in Banks : saveQuestionBank(c, b)

Spec == Init /\ [][Next]_vars


\* ------------------------------------------------------------------ claims
Range(seq) == {seq[i] : i \in DOMAIN seq}

Count(seq, x) == Cardinality({i \in DOMAIN seq : seq[i] = x})

\* scores[t] ?? 0
ScoreOf(d, t) == IF t \in DOMAIN d.scores THEN d.scores[t] ELSE 0

\* this step is the return of a call, which ev' then describes: a call that
\* starts and returns in one step leaves every pc alone, a suspended call
\* returns when its client goes back to idle
ReturnStep ==
  \/ calls' # calls /\ pc' = pc
  \/ \E c \in Clients : pc[c] # "idle" /\ pc'[c] = "idle"

\* this step is the return of a buzz / registerTeam / changeScore call
ReturnOf(name) == ReturnStep /\ OpName(ev'.op) = name

\* every client is idle and its last call was a successful call of name on
\* the existing room, no two of them for the same team
AllReturned(name) ==
  /\ exists
  /\ \A c \in Clients : pc[c] = "idle" /\ last[c].op = name
  /\ \A c1, c2 \in Clients : c1 # c2 => last[c1].team # last[c2].team

\* C1: when every client has buzzed with a team name of its own and all the
\* calls have returned, the buzzer is locked by one of those teams.
C1_OneBuzzWins ==
  AllReturned("buzz") => \E c \in Clients : data.buzz.lockedBy = last[c].team

\* C2: a buzz that returns on an existing room succeeds; if the buzzer was
\* unlocked it now holds the caller's team and a lock time, otherwise the
\* document is as it was.
C2_BuzzContract ==
  [][ReturnOf("buzz") /\ ev'.saw =>
       /\ ev'.result = "ok"
       /\ IF data.buzz.lockedBy = Null
            THEN data'.buzz.lockedBy = ev'.team /\ data'.buzz.lockedAt # NullT
            ELSE data' = data]_vars

\* the operations C3 allows to release the lock
Unlockers == {"resetBuzz", "setLiveQuestion", "startCharades", "startHum", "clearStage"}

\* C3: a held lock changes only in a step that is the return of resetBuzz or
\* of a stage transition.
C3_LockedUntilReset ==
  [][exists /\ data.buzz.lockedBy # Null /\ data'.buzz.lockedBy # data.buzz.lockedBy
       => ReturnStep /\ ev'.op \in Unlockers]_vars

\* C4: buzz, registerTeam and changeScore on a room with no document throw
\* "Room missing" and leave the room without a document.
C4_RoomMissing ==
  [][(\E name \in {"buzz", "registerTeam", "changeScore"} : ReturnOf(name)) /\ ~ev'.saw
       => ev'.result = "Room missing" /\ ~exists']_vars

\* C5: after registerTeam(t) returns on an existing room t is in teams once
\* and has a score, 0 if it had none; if t was registered already teams and
\* scores are as they were.
C5_RegisterIdempotent ==
  [][ReturnOf("registerTeam") /\ ev'.saw =>
       /\ Count(data'.teams, ev'.team) = 1
       /\ ev'.team \in DOMAIN data'.scores
       /\ ev'.team \notin DOMAIN data.scores => data'.scores[ev'.team] = 0
       /\ (ev'.team \in Range(data.teams) /\ ev'.team \in DOMAIN data.scores
             => data'.teams = data.teams /\ data'.scores = data.scores)]_vars

\* C6: when every client has registered a team of its own and all the calls
\* have returned, every one of those teams is in teams and has a score.
C6_ConcurrentRegister ==
  AllReturned("registerTeam") =>
    \A c \in Clients :
      last[c].team \in Range(data.teams) /\ last[c].team \in DOMAIN data.scores

\* C7: a changeScore(t, delta) that returns on an existing room leaves
\* scores[t] at its value before (0 if none) plus delta: no update is lost.
C7_ScoreAdditive ==
  [][ReturnOf("changeScore") /\ ev'.saw =>
       /\ ev'.result = "ok"
       /\ ev'.team \in DOMAIN data'.scores
       /\ data'.scores[ev'.team] = ScoreOf(data, ev'.team) + ev'.delta]_vars

\* C8 as stated: the keys of scores are exactly the names in teams.
C8_ScoresKeysAreTeams ==
  exists => DOMAIN data.scores = Range(data.teams)

\* C8 as amended: every name in teams has a scores entry (scores may hold
\* more keys: changeScore creates one for a name that was never registered).
C8_TeamsHaveScores ==
  exists => Range(data.teams) \subseteq DOMAIN data.scores

\* a changeScore for an unregistered name and a registration have both
\* committed
C8_Witness ==
  /\ exists
  /\ data.teams # <<>>
  /\ ~(DOMAIN data.scores \subseteq Range(data.teams))

\* C9 as stated: the lock holder is absent or a member of teams.
C9_LockedByIsTeam ==
  exists => data.buzz.lockedBy = Null \/ data.buzz.lockedBy \in Range(data.teams)

\* C9 as amended: the lock holder becomes a name only in the return of a buzz
\* call that found the buzzer unlocked, and the name is that call's teamName
\* (which need not be in teams).
C9_LockedByIsBuzzer ==
  [][exists' /\ data'.buzz.lockedBy # Null /\ data'.buzz.lockedBy # data.buzz.lockedBy
       => /\ ReturnOf("buzz")
          /\ ev'.team = data'.buzz.lockedBy
          /\ data.buzz.lockedBy = Null]_vars

\* a team that was never registered holds the lock
C9_Witness ==
  /\ exists
  /\ data.buzz.lockedBy # Null
  /\ data.buzz.lockedBy \notin Range(data.teams)

\* C10: at most one mode is active: charades and hum never run together, a
\* running mode is the round of game, and a live question is shown only in the
\* questions round.
C10_ModeExclusive ==
  exists =>
    /\ ~(data.charades.running /\ data.hum.running)
    /\ data.charades.running => data.game.round = "charades"
    /\ data.hum.running => data.game.round = "hum"
    /\ data.live # Null => data.game.round = "questions"

\* charades runs on a stage that an earlier transition had given to another
\* mode (only setLiveQuestion and startHum leave hum without its used key)
C10_Witness ==
  /\ exists
  /\ data.charades.running
  /\ data.game.round = "charades"
  /\ "hum" \in data.present
  /\ "used" \notin data.hum.has

\* the names a used pool holds: none when the map has no used key
UsedOf(m) == IF "used" \in m.has THEN Range(m.used) ELSE {}

\* this step is the return of a call of op that found the room document
Did(op) == ReturnStep /\ ev'.op = op /\ ev'.saw

\* C11: setLiveQuestion on a room whose used pools hold a name (charades or
\* hum was started) sets the round to "questions", stops charades and hum, and
\* leaves in charades.used and hum.used exactly the names they held.
C11_LiveKeepsUsed ==
  [][Did("setLiveQuestion") /\ UsedOf(data.charades) \cup UsedOf(data.hum) # {} =>
       /\ data'.game.round = "questions"
       /\ ~data'.charades.running
       /\ ~data'.hum.running
       /\ UsedOf(data'.charades) = UsedOf(data.charades)
       /\ UsedOf(data'.hum) = UsedOf(data.hum)]_vars

\* C12: the used pools only grow: a name leaves charades.used only in the
\* return of resetCharadesPool and leaves hum.used only in the return of
\* resetHumPool; no other step of any operation removes one.
C12_UsedOnlyGrows ==
  [][exists =>
       /\ \/ UsedOf(data.charades) \subseteq UsedOf(data'.charades)
          \/ Did("resetCharadesPool")
       /\ \/ UsedOf(data.hum) \subseteq UsedOf(data'.hum)
          \/ Did("resetHumPool")]_vars

\* C13: startCharades(actorTeam, person, seconds) on an existing room, in any
\* prior mode, leaves round "charades", no live question, the charades fields
\* at the given values with running true, revealed false and endsAt = now +
\* seconds * 1000, person in charades.used beside every earlier member, hum
\* stopped with hum.used as it was, and the buzzer unlocked.
C13_StartCharades ==
  [][Did("startCharades") =>
       /\ data'.game.round = "charades"
       /\ data'.live = Null
       /\ CharadesFields \subseteq data'.charades.has
       /\ data'.charades.actorTeam = ev'.team
       /\ data'.charades.person = ev'.arg
       /\ data'.charades.running
       /\ ~data'.charades.revealed
       /\ data'.charades.endsAt = ev'.now + ev'.seconds * 1000
       /\ ev'.arg \in UsedOf(data'.charades)
       /\ UsedOf(data.charades) \subseteq UsedOf(data'.charades)
       /\ ~data'.hum.running
       /\ UsedOf(data'.hum) = UsedOf(data.hum)
       /\ ("used" \in data'.hum.has) = ("used" \in data.hum.has)
       /\ data'.buzz.lockedBy = Null]_vars

\* startCharades has returned on a room whose pool held another name
C13_Witness ==
  /\ exists
  /\ ev.op = "startCharades"
  /\ ev.saw
  /\ data.charades.person = ev.arg
  /\ Cardinality(UsedOf(data.charades)) = 2

\* C14: startHum(hummerTeam, song, seconds) on an existing room leaves round
\* "hum", no live question, the hum fields at the given values with running
\* true and revealed false, song in hum.used beside every earlier member, the
\* charades active fields cleared with charades.used as it was, and the buzzer
\* unlocked.
C14_StartHum ==
  [][Did("startHum") =>
       /\ data'.game.round = "hum"
       /\ data'.live = Null
       /\ data'.hum.hummerTeam = ev'.team
       /\ data'.hum.song = ev'.arg
       /\ data'.hum.running
       /\ ~data'.hum.revealed
       /\ ev'.arg \in UsedOf(data'.hum)
       /\ UsedOf(data.hum) \subseteq UsedOf(data'.hum)
       /\ data'.charades.actorTeam = Null
       /\ data'.charades.person = Null
       /\ data'.charades.endsAt = NullT
       /\ ~data'.charades.running
       /\ ~data'.charades.revealed
       /\ UsedOf(data'.charades) = UsedOf(data.charades)
       /\ data'.buzz.lockedBy = Null]_vars

\* the fields of the room outside charades and hum
Outside(d) ==
  <<d.teams, d.scores, d.buzz, d.game, d.live, d.reveal, d.questionBank,
    d.present \ {"charades", "hum"}>>

\* C15: revealCharades on an existing room, whatever the charades state was
\* (running, stopped or revealed), leaves revealed true, running false and no
\* endsAt, and changes nothing else: actorTeam, person, used, game, buzz,
\* teams, scores and the rest of the room are as before.
C15_RevealFreeze ==
  [][Did("revealCharades") =>
       /\ data'.charades.revealed
       /\ ~data'.charades.running
       /\ data'.charades.endsAt = NullT
       /\ data'.charades.actorTeam = data.charades.actorTeam
       /\ data'.charades.person = data.charades.person
       /\ data'.charades.used = data.charades.used
       /\ data'.charades.has = data.charades.has \cup {"revealed", "running", "endsAt"}
       /\ data'.hum = data.hum
       /\ Outside(data') = Outside(data)]_vars

\* revealCharades has returned on a round that was started: the person is
\* still there, the round is still charades
C15_Witness ==
  /\ exists
  /\ ev.op = "revealCharades"
  /\ ev.saw
  /\ data.charades.revealed
  /\ data.charades.person # Null
  /\ data.game.round = "charades"
  /\ UsedOf(data.charades) # {}

\* C16: resetCharadesPool empties charades.used and changes nothing else
\* (the other charades fields, hum with hum.used, teams, scores, buzz, game);
\* resetHumPool does the same for hum.used and leaves charades alone.
C16_PoolResetIsolated ==
  [][/\ Did("resetCharadesPool") =>
          /\ data'.charades = [data.charades EXCEPT !.used = <<>>,
                                                    !.has = @ \cup {"used"}]
          /\ UsedOf(data'.charades) = {}
          /\ data'.hum = data.hum
          /\ Outside(data') = Outside(data)
     /\ Did("resetHumPool") =>
          /\ data'.hum = [data.hum EXCEPT !.used = <<>>, !.has = @ \cup {"used"}]
          /\ UsedOf(data'.hum) = {}
          /\ data'.charades = data.charades
          /\ Outside(data') = Outside(data)]_vars

\* resetCharadesPool has returned on a room whose round had put its person in
\* the pool: the pool is empty and the person is still on stage
C16_Witness ==
  /\ exists
  /\ ev.op = "resetCharadesPool"
  /\ ev.saw
  /\ data.charades.person # Null
  /\ data.charades.running
  /\ "used" \in data.charades.has
  /\ data.charades.used = <<>>

\* C17: clearStage on an existing room, from any mode, leaves no round, no
\* live question, reveal false, the active fields of charades and hum at
\* their cleared values and the buzzer unlocked; teams, scores, charades.used
\* and hum.used are exactly what they were.
C17_ClearStage ==
  [][Did("clearStage") =>
       /\ data'.game.round = Null
       /\ data'.live = Null
       /\ data'.reveal = FALSE
       /\ \A m \in {data'.charades, data'.hum} :
            m.endsAt = NullT /\ ~m.running /\ ~m.revealed
       /\ data'.charades.actorTeam = Null /\ data'.charades.person = Null
       /\ data'.hum.hummerTeam = Null /\ data'.hum.song = Null
       /\ data'.buzz = DefaultBuzz
       /\ data'.teams = data.teams
       /\ data'.scores = data.scores
       /\ data'.charades.used = data.charades.used
       /\ ("used" \in data'.charades.has) = ("used" \in data.charades.has)
       /\ data'.hum.used = data.hum.used
       /\ ("used" \in data'.hum.has) = ("used" \in data.hum.has)]_vars

\* clearStage has returned on a room whose charades pool holds a name
C17_Witness ==
  /\ exists
  /\ ev.op = "clearStage"
  /\ ev.saw
  /\ data.game.round = Null
  /\ UsedOf(data.charades) # {}

\* the top-level fields of document d that hold a value the model keeps
Held(d) == d.present \ {"createdAt"}

\* C18: an ensureRoom call that found the document changes no field the
\* document holds and adds only fields it lacked, each at its default; when
\* the document lacks none (as after an earlier ensureRoom) the call writes
\* nothing.
C18_EnsureRoomAdditive ==
  [][Did("ensureRoom") =>
       /\ data.present \subseteq data'.present
       /\ \A f \in Held(data) : data'[f] = data[f]
       /\ \A f \in Held(data') \ Held(data) : data'[f] = NewRoom[f]
       /\ Patch(data) = {} => data' = data /\ ver' = ver]_vars

\* C19: an ensureQuestionBank call never replaces a payload that questionBank
\* holds: one that an earlier ensureQuestionBank call left there is still there
\* when a later or concurrent ensureQuestionBank call returns; on a room with
\* no document the call throws "Room missing".
C19_BankSetOnce ==
  [][ReturnStep /\ ev'.op = "ensureQuestionBank" =>
       /\ ~ev'.saw => ev'.result = "Room missing" /\ ~exists'
       /\ (/\ ev.op = "ensureQuestionBank"
           /\ ev.arg = data.questionBank
           /\ Truthy(data.questionBank))
          => data'.questionBank = data.questionBank]_vars

\* the fields C20 names: teams, scores, buzz and the mode state
Committed == {"teams", "scores", "buzz", "game", "live", "reveal", "charades", "hum"}

\* C20: whatever the interleaving of the store calls of concurrent ensureRoom
\* calls with each other and with the writes of other operations, the step in
\* which an ensureRoom call writes and returns keeps every value of teams,
\* scores, buzz and mode state that an operation has committed since the room
\* was created (a value that is not the one room creation wrote).
C20_EnsureRoomKeepsCommitted ==
  [][ReturnStep /\ ev'.op = "ensureRoom" /\ exists =>
       \A f \in Committed \cap data.present :
         data[f] \notin {NewRoom[f], NewRoomQ[f]} => data'[f] = data[f]]_vars

\* C21: the two lock fields change together: in every state of an existing
\* room, under any interleaving of buzz, resetBuzz, stage transitions and the
\* other operations, buzz.lockedBy is absent exactly when buzz.lockedAt is.
C21_LockFieldsTogether ==
  exists => (data.buzz.lockedBy = Null <=> data.buzz.lockedAt = NullT)

\* a buzz has taken the lock: its team holds it and the lock time is the
\* clock value the call read
C21_Witness ==
  /\ exists
  /\ OpName(ev.op) = "buzz"
  /\ ev.result = "ok"
  /\ data.buzz.lockedBy = ev.team
  /\ data.buzz.lockedAt \in Times

====
